---- MODULE Spec2Model ----
\* The match state machine and play-commit protocol of trucastel-api, in its two
\* deployments: the in-memory service (src/api/index.ts) and the Convex-backed
\* service (HTTP layer src/unnamed/part_002 over the mutations/queries of
\* src/unnamed/part_000 and src/unnamed/part_001, schema src/convex/schema.ts).
\*
\* Play ids (crypto.randomUUID) and timestamps (Date.now) are left out of the
\* play records: no handler reads them back.
EXTENDS Integers, Sequences, FiniteSets, TLC

VARIABLES
    service,    \* which deployment is running: "memory" or "convex"
    matches,    \* in-memory service: the global table  matchId -> Match
    db,         \* Convex service: the tables  matches (id -> document) and plays
    pc,         \* per client: how far the handler of its request has run
    loc,        \* per client: the handler's local constants (request, snapshots)
    response,   \* the HTTP response most recently sent
    batch       \* SpecBatch only: per client, the call it makes and its outcome

vars == <<service, matches, db, pc, loc, response, batch>>

------------------------------------------------------------------------------
\* Bounds and input domains

\* Cap on the plays recorded for a match under Spec.
MaxPlays == 13

\* Cap on the plays recorded for a match under SpecOverlap.
MaxOverlapPlays == 5

Services == {"memory", "convex"}
Clients == {"c1", "c2"}
OneClient == {"c1"}
BatchClients == {"c1", "c2", "c3"}
MatchIds == {"m1"}

\* Bodies a caller may post to /v1/match/create: four distinct players, or
\* one player seated in both teams.
DistinctRoster ==
    [team1 |-> [player1 |-> "A", player2 |-> "B"],
     team2 |-> [player1 |-> "C", player2 |-> "D"]]
SharedSeatRoster ==
    [team1 |-> [player1 |-> "A", player2 |-> "B"],
     team2 |-> [player1 |-> "B", player2 |-> "D"]]
Rosters == {DistinctRoster, SharedSeatRoster}

\* :userId path parameters.
UserIds == {"A", "B", "C", "D"}

\* :cardvalue path parameters, as character sequences.
CardValueParams == { <<"3">>, <<"1", "2">>, <<"1", "4">>, <<"x">> }

\* :suit path parameters ("stars" is no suit).
SuitParams == {"hearts", "stars"}

\* The parameters among them that make a valid card.
ValidCardValueParams == { <<"3">>, <<"1", "2">> }
ValidSuitParams == {"hearts"}

Undefined == "undefined"
Null == "null"
RoundKey == {"round1", "round2", "round3"}
\* Object.values(rounds) visits the keys in insertion order.
RoundOrder == <<"round1", "round2", "round3">>
TeamKey == {"team1", "team2"}
SuitEnum == {"hearts", "diamonds", "clubs", "spades"}

\* Does emitMatchUpdate throw? Either may happen, or the notifier works.
NotifierAny == BOOLEAN
NotifierWorks == {FALSE}

EmptyTable == [id \in {} |-> Null]

------------------------------------------------------------------------------
\* Request parsing and validation

Digits == <<"0", "1", "2", "3", "4", "5", "6", "7", "8", "9">>
IsDigit(ch) == \E i \in 1..10 : Digits[i] = ch
DigitValue(ch) == (CHOOSE i \in 1..10 : Digits[i] = ch) - 1

\* Length of the longest prefix of s made of decimal digits.
RECURSIVE DigitPrefixLen(_)
DigitPrefixLen(s) ==
    IF s = <<>> \/ ~IsDigit(Head(s)) THEN 0 ELSE 1 + DigitPrefixLen(Tail(s))

RECURSIVE DigitsToNumber(_, _)
DigitsToNumber(s, acc) ==
    IF s = <<>> THEN acc
    ELSE DigitsToNumber(Tail(s), 10 * acc + DigitValue(Head(s)))

\* parseInt(string): an optional sign, then the longest run of decimal digits;
\* whatever follows is ignored; NaN when there is no digit. (The inputs carry
\* no whitespace and no "0x" prefix.)
ParseInt(str) ==
    LET signed == str # <<>> /\ Head(str) \in {"-", "+"}
        body   == IF signed THEN Tail(str) ELSE str
        n      == DigitPrefixLen(body)
        mag    == DigitsToNumber(SubSeq(body, 1, n), 0)
    IN  IF n = 0 THEN [isNaN |-> TRUE, num |-> 0]
        ELSE [isNaN |-> FALSE,
              num |-> IF signed /\ Head(str) = "-" THEN 0 - mag ELSE mag]

\* The schema without the upper limit of the value.
CardSchemaOkNoMax(parsed, suit) ==
    /\ ~parsed.isNaN
    /\ parsed.num >= 1
    /\ suit \in SuitEnum

\* CardSchema.parse succeeds: z.number().min(1).max(13) rejects NaN and
\* anything outside 1..13; z.enum rejects any other suit.
CardSchemaOk(parsed, suit) ==
    /\ ~parsed.isNaN
    /\ parsed.num >= 1
    /\ parsed.num <= 13
    /\ suit \in SuitEnum

------------------------------------------------------------------------------
\* In-memory service: helper functions

\* plays.reduce((highest, current) =>
\*     current.card.value > highest.card.value ? current : highest)
RECURSIVE ReduceHighest(_, _)
ReduceHighest(plays, highest) ==
    IF plays = <<>> THEN highest
    ELSE ReduceHighest(Tail(plays),
                       IF Head(plays).card.value > highest.card.value
                       THEN Head(plays) ELSE highest)

determineRoundWinner(plays, state) ==
    LET winningPlay == ReduceHighest(Tail(plays), Head(plays))
    IN  IF \/ winningPlay.userId = state.team1.player1
           \/ winningPlay.userId = state.team1.player2
        THEN "team1"
        ELSE "team2"

\* Number of rounds holding exactly 4 plays that `team` wins when recomputed
\* from the raw plays.
RECURSIVE CountWins(_, _, _, _)
CountWins(rounds, state, team, i) ==
    IF i > Len(RoundOrder) THEN 0
    ELSE LET roundPlays == rounds[RoundOrder[i]]
             won == /\ Len(roundPlays) = 4
                    /\ determineRoundWinner(roundPlays, state) = team
         IN  (IF won THEN 1 ELSE 0) + CountWins(rounds, state, team, i + 1)

\* determineGameWinner deciding the series on a single round win.
determineGameWinnerOneWin(rounds, state) ==
    LET team1Wins == CountWins(rounds, state, "team1", 1)
        team2Wins == CountWins(rounds, state, "team2", 1)
    IN  IF team1Wins >= 1 THEN "team1"
        ELSE IF team2Wins >= 1 THEN "team2"
        ELSE Undefined

determineGameWinner(rounds, state) ==
    LET team1Wins == CountWins(rounds, state, "team1", 1)
        team2Wins == CountWins(rounds, state, "team2", 1)
    IN  IF team1Wins >= 2 THEN "team1"
        ELSE IF team2Wins >= 2 THEN "team2"
        ELSE Undefined

getNextPlayer(state, currentPlayer) ==
    IF currentPlayer = state.team1.player1 \/ currentPlayer = state.team1.player2
    THEN IF currentPlayer = state.team1.player1
         THEN state.team2.player1 ELSE state.team2.player2
    ELSE IF currentPlayer = state.team2.player1
         THEN state.team1.player2 ELSE state.team1.player1

\* summary: { currentRound, currentTurn, roundWinners, gameWinner, isComplete }
MemSummary(match) ==
    [currentRound |-> match.state.currentRound,
     currentTurn  |-> match.state.currentTurn,
     roundWinners |-> match.state.roundWinners,
     gameWinner   |-> match.state.winner,
     isComplete   |-> match.state.gameComplete]

------------------------------------------------------------------------------
\* In-memory service: routes. Every handler runs to completion without an
\* await between its reads and writes of `matches`, so each is one step, and
\* none keeps anything in pc or loc.

NoRoundWinners == [r \in RoundKey |-> Undefined]

\* c.json(...): the response sent, by kind, with the match state it carries.
Respond(kind, matchId, view) == [kind |-> kind, matchId |-> matchId, view |-> view]

\* The Match that POST /v1/match/create stores (roundWinners: {} and the
\* unset optional fields winner, gameComplete read as undefined / falsy).
MemNewMatch(body) ==
    [state  |-> [team1        |-> body.team1,
                 team2        |-> body.team2,
                 currentTurn  |-> body.team1.player1,
                 currentRound |-> "round1",
                 roundWinners |-> NoRoundWinners,
                 winner       |-> Undefined,
                 gameComplete |-> FALSE],
     rounds |-> [r \in RoundKey |-> <<>>]]

\* POST /v1/match/create (matchId: the fresh crypto.randomUUID()). The match is
\* stored before emitMatchUpdate runs; emitThrows says whether that call
\* throws, which the catch block answers with "Invalid request".
MemCreateMatch(matchId, body, emitThrows) ==
    /\ service = "memory"
    /\ matchId \notin DOMAIN matches
    /\ matches' = matches @@ (matchId :> MemNewMatch(body))
    /\ response' = IF emitThrows
                   THEN Respond("invalid_request", matchId, Null)
                   ELSE Respond("created", matchId, matches'[matchId])
    /\ UNCHANGED <<service, db>>

\* GET /v1/match/:matchId
MemGetMatch(matchId) ==
    /\ service = "memory"
    /\ response' =
         IF matchId \notin DOMAIN matches
         THEN Respond("not_found", matchId, Null)
         ELSE Respond("match", matchId, [summary |-> MemSummary(matches[matchId]),
                         rounds  |-> matches[matchId].rounds])
    /\ UNCHANGED <<service, matches, db>>

\* GET /v1/matches/active: the entries of `matches` that are not gameComplete,
\* each with its state and a summary.
MemActiveMatches ==
    [id \in {i \in DOMAIN matches : ~matches[i].state.gameComplete} |->
        [state   |-> matches[id].state,
         summary |-> [currentRound |-> matches[id].state.currentRound,
                      currentTurn  |-> matches[id].state.currentTurn,
                      roundWinners |-> matches[id].state.roundWinners]]]

MemListActive ==
    /\ service = "memory"
    /\ response' = Respond("active", Null, MemActiveMatches)
    /\ UNCHANGED <<service, matches, db>>

\* The accepted play recording the series winner without marking the match
\* complete.
MemApplyPlayWinnerOnly(match, userId, validatedCard) ==
    LET state == match.state
        play  == [userId |-> userId, card |-> validatedCard]
        currentRoundPlays == Append(match.rounds[state.currentRound], play)
        rounds1 == [match.rounds EXCEPT ![state.currentRound] = currentRoundPlays]
        state1  == [state EXCEPT !.currentTurn = getNextPlayer(state, userId)]
    IN  IF Len(currentRoundPlays) = 4
        THEN LET roundWinner == determineRoundWinner(currentRoundPlays, state1)
                 state2 == [state1 EXCEPT
                              !.roundWinners[state.currentRound] = roundWinner]
                 state3 == [state2 EXCEPT !.currentRound =
                              IF state2.currentRound = "round1" THEN "round2"
                              ELSE IF state2.currentRound = "round2" THEN "round3"
                              ELSE state2.currentRound]
                 gameWinner == determineGameWinner(rounds1, state3)
             IN  [state |-> [state3 EXCEPT !.winner = gameWinner], rounds |-> rounds1]
        ELSE [state |-> state1, rounds |-> rounds1]

\* The match after the accepted play of userId with validatedCard.
MemApplyPlay(match, userId, validatedCard) ==
    LET state == match.state
        play  == [userId |-> userId, card |-> validatedCard]
        currentRoundPlays == Append(match.rounds[state.currentRound], play)
        rounds1 == [match.rounds EXCEPT ![state.currentRound] = currentRoundPlays]
        state1  == [state EXCEPT !.currentTurn = getNextPlayer(state, userId)]
    IN  IF Len(currentRoundPlays) = 4
        THEN LET roundWinner == determineRoundWinner(currentRoundPlays, state1)
                 state2 == [state1 EXCEPT
                              !.roundWinners[state.currentRound] = roundWinner]
                 state3 == [state2 EXCEPT !.currentRound =
                              IF state2.currentRound = "round1" THEN "round2"
                              ELSE IF state2.currentRound = "round2" THEN "round3"
                              ELSE state2.currentRound]
                 gameWinner == determineGameWinner(rounds1, state3)
                 state4 == IF gameWinner # Undefined
                           THEN [state3 EXCEPT !.winner = gameWinner,
                                               !.gameComplete = TRUE]
                           ELSE state3
             IN  [state |-> state4, rounds |-> rounds1]
        ELSE [state |-> state1, rounds |-> rounds1]

\* The submit handler undoing the play when emitMatchUpdate throws.
MemSubmitPlayRollback(matchId, userId, cardvalue, suit, emitThrows) ==
    LET cardValue == ParseInt(cardvalue) IN
    /\ service = "memory"
    /\ IF matchId \notin DOMAIN matches
       THEN /\ response' = Respond("not_found", matchId, Null)
            /\ UNCHANGED matches
       ELSE IF ~CardSchemaOk(cardValue, suit)
       THEN /\ response' = Respond("validation", matchId, Null)
            /\ UNCHANGED matches
       ELSE IF matches[matchId].state.currentTurn # userId
       THEN /\ response' = Respond("not_your_turn", matchId, Null)
            /\ UNCHANGED matches
       ELSE IF emitThrows
       THEN /\ response' = Respond("invalid_request", matchId, Null)
            /\ UNCHANGED matches
       ELSE /\ matches' = [matches EXCEPT ![matchId] =
                 MemApplyPlay(@, userId, [value |-> cardValue.num, suit |-> suit])]
            /\ response' = Respond("played", matchId, matches'[matchId])
    /\ UNCHANGED <<service, db>>

\* The submit handler accepting a play from anyone.
MemSubmitPlayNoTurnCheck(matchId, userId, cardvalue, suit, emitThrows) ==
    LET cardValue == ParseInt(cardvalue) IN
    /\ service = "memory"
    /\ IF matchId \notin DOMAIN matches
       THEN /\ response' = Respond("not_found", matchId, Null)
            /\ UNCHANGED matches
       ELSE IF ~CardSchemaOk(cardValue, suit)
       THEN /\ response' = Respond("validation", matchId, Null)
            /\ UNCHANGED matches
       ELSE /\ matches' = [matches EXCEPT ![matchId] =
                 MemApplyPlay(@, userId, [value |-> cardValue.num, suit |-> suit])]
            /\ response' = IF emitThrows
                           THEN Respond("invalid_request", matchId, Null)
                           ELSE Respond("played", matchId, matches'[matchId])
    /\ UNCHANGED <<service, db>>

\* The submit handler pushing the play before it checks the turn.
MemSubmitPlayPushFirst(matchId, userId, cardvalue, suit, emitThrows) ==
    LET cardValue == ParseInt(cardvalue) IN
    /\ service = "memory"
    /\ IF matchId \notin DOMAIN matches
       THEN /\ response' = Respond("not_found", matchId, Null)
            /\ UNCHANGED matches
       ELSE IF ~CardSchemaOk(cardValue, suit)
       THEN /\ response' = Respond("validation", matchId, Null)
            /\ UNCHANGED matches
       ELSE IF matches[matchId].state.currentTurn # userId
       THEN /\ response' = Respond("not_your_turn", matchId, Null)
            /\ matches' = [matches EXCEPT
                 ![matchId].rounds[matches[matchId].state.currentRound] =
                     Append(@, [userId |-> userId,
                                card |-> [value |-> cardValue.num, suit |-> suit]])]
       ELSE /\ matches' = [matches EXCEPT ![matchId] =
                 MemApplyPlay(@, userId, [value |-> cardValue.num, suit |-> suit])]
            /\ response' = IF emitThrows
                           THEN Respond("invalid_request", matchId, Null)
                           ELSE Respond("played", matchId, matches'[matchId])
    /\ UNCHANGED <<service, db>>

\* GET /v1/:matchId/:userId/:cardvalue/:suit. emitMatchUpdate runs after the
\* play has been applied; when it throws (emitThrows) the catch block answers
\* "Invalid request".
MemSubmitPlay(matchId, userId, cardvalue, suit, emitThrows) ==
    LET cardValue == ParseInt(cardvalue) IN
    /\ service = "memory"
    /\ IF matchId \notin DOMAIN matches
       THEN /\ response' = Respond("not_found", matchId, Null)
            /\ UNCHANGED matches
       ELSE IF ~CardSchemaOk(cardValue, suit)
       THEN /\ response' = Respond("validation", matchId, Null)
            /\ UNCHANGED matches
       ELSE IF matches[matchId].state.currentTurn # userId
       THEN /\ response' = Respond("not_your_turn", matchId, Null)
            /\ UNCHANGED matches
       ELSE /\ matches' = [matches EXCEPT ![matchId] =
                 MemApplyPlay(@, userId, [value |-> cardValue.num, suit |-> suit])]
            /\ response' = IF emitThrows
                           THEN Respond("invalid_request", matchId, Null)
                           ELSE Respond("played", matchId, matches'[matchId])
    /\ UNCHANGED <<service, db>>

------------------------------------------------------------------------------
\* Convex service: queries and mutations (src/unnamed/part_000, part_001).
\* Each query and each mutation is one transaction.

\* matches.get: ctx.db.get(id); null exactly when id is not in the table
MatchesGet(id) == IF id \in DOMAIN db.matches THEN db.matches[id] ELSE Null

\* The query returning every document.
MatchesGetActiveNoFilter == db.matches

\* matches.getActive: the documents whose is_complete equals false
MatchesGetActive ==
    [id \in {i \in DOMAIN db.matches : db.matches[i].is_complete = FALSE} |->
        db.matches[id]]

\* plays.getByMatch: the plays of the match, in insertion order
PlaysGetByMatch(matchId) == SelectSeq(db.plays, LAMBDA p : p.match_id = matchId)

cvxGetNextPlayer(match, currentPlayer) ==
    IF currentPlayer = match.team1_player1 THEN match.team2_player1
    ELSE IF currentPlayer = match.team2_player1 THEN match.team1_player2
    ELSE IF currentPlayer = match.team1_player2 THEN match.team2_player2
    ELSE match.team1_player1

\* plays.reduce((highest, current) =>
\*     current.card_value > highest.card_value ? current : highest)
RECURSIVE cvxReduceHighest(_, _)
cvxReduceHighest(plays, highest) ==
    IF plays = <<>> THEN highest
    ELSE cvxReduceHighest(Tail(plays),
                          IF Head(plays).card_value > highest.card_value
                          THEN Head(plays) ELSE highest)

\* The reduce keeping the later of two plays of equal value.
RECURSIVE cvxReduceHighestLast(_, _)
cvxReduceHighestLast(plays, highest) ==
    IF plays = <<>> THEN highest
    ELSE cvxReduceHighestLast(Tail(plays),
                              IF Head(plays).card_value >= highest.card_value
                              THEN Head(plays) ELSE highest)

\* determineRoundWinner resolving a tie for the latest play.
cvxDetermineRoundWinnerLastMax(plays, match) ==
    LET winningPlay == cvxReduceHighestLast(Tail(plays), Head(plays))
    IN  IF \/ winningPlay.user_id = match.team1_player1
           \/ winningPlay.user_id = match.team1_player2
        THEN "team1"
        ELSE "team2"

cvxDetermineRoundWinner(plays, match) ==
    LET winningPlay == cvxReduceHighest(Tail(plays), Head(plays))
    IN  IF \/ winningPlay.user_id = match.team1_player1
           \/ winningPlay.user_id = match.team1_player2
        THEN "team1"
        ELSE "team2"

\* matches.create: ctx.db.insert("matches", {...args, <winners undefined>})
MatchesCreate(args) ==
    [team1_player1 |-> args.team1_player1,
     team1_player2 |-> args.team1_player2,
     team2_player1 |-> args.team2_player1,
     team2_player2 |-> args.team2_player2,
     current_turn  |-> args.current_turn,
     current_round |-> args.current_round,
     round1_winner |-> Undefined,
     round2_winner |-> Undefined,
     round3_winner |-> Undefined,
     game_winner   |-> Undefined,
     is_complete   |-> args.is_complete]

\* The conditions without the case of team2 winning round1 and team1 round2.
PlaysCreateGameWinnerOneSplit(match, roundWinner) ==
    IF \/ (match.round1_winner = "team1" /\ match.round2_winner = "team1")
       \/ (match.round1_winner = "team1" /\ match.round2_winner = "team2"
           /\ roundWinner = "team1")
    THEN "team1"
    ELSE IF \/ (match.round1_winner = "team2" /\ match.round2_winner = "team2")
            \/ (match.round1_winner = "team1" /\ match.round2_winner = "team2"
                /\ roundWinner = "team2")
    THEN "team2"
    ELSE Undefined

\* The "Check for game winner" conditions of plays.create, read from the match
\* document loaded at the start of the mutation.
PlaysCreateGameWinner(match, roundWinner) ==
    IF \/ (match.round1_winner = "team1" /\ match.round2_winner = "team1")
       \/ (match.round1_winner = "team1" /\ match.round2_winner = "team2"
           /\ roundWinner = "team1")
       \/ (match.round1_winner = "team2" /\ match.round2_winner = "team1"
           /\ roundWinner = "team1")
    THEN "team1"
    ELSE IF \/ (match.round1_winner = "team2" /\ match.round2_winner = "team2")
            \/ (match.round1_winner = "team1" /\ match.round2_winner = "team2"
                /\ roundWinner = "team2")
            \/ (match.round1_winner = "team2" /\ match.round2_winner = "team1"
                /\ roundWinner = "team2")
    THEN "team2"
    ELSE Undefined

\* plays.create without its own check of the turn.
PlaysCreateThrowsNoTurnCheck(args) ==
    args.match_id \notin DOMAIN db.matches

\* plays.create throws before writing anything.
PlaysCreateThrows(args) ==
    \/ args.match_id \notin DOMAIN db.matches
    \/ MatchesGet(args.match_id).current_turn # args.user_id

\* The patch of plays.create starting over at round1 when round3 closes.
PlaysCreatePatchWrapRound(match, args, plays1) ==
    LET roundPlays == SelectSeq(plays1, LAMBDA p :
                         p.match_id = args.match_id /\ p.round = args.round)
        m1 == [match EXCEPT !.current_turn = cvxGetNextPlayer(match, args.user_id)]
    IN  IF Len(roundPlays) = 4
        THEN LET roundWinner == cvxDetermineRoundWinner(roundPlays, match)
                 m2 == IF args.round = "round1"
                       THEN [m1 EXCEPT !.round1_winner = roundWinner]
                       ELSE IF args.round = "round2"
                       THEN [m1 EXCEPT !.round2_winner = roundWinner]
                       ELSE [m1 EXCEPT !.round3_winner = roundWinner]
                 m3 == IF args.round = "round1"
                       THEN [m2 EXCEPT !.current_round = "round2"]
                       ELSE IF args.round = "round2"
                       THEN [m2 EXCEPT !.current_round = "round3"]
                       ELSE [m2 EXCEPT !.current_round = "round1"]
                 gameWinner == PlaysCreateGameWinner(match, roundWinner)
             IN  IF gameWinner # Undefined
                 THEN [m3 EXCEPT !.game_winner = gameWinner, !.is_complete = TRUE]
                 ELSE m3
        ELSE m1

\* ctx.db.patch(args.match_id, updateData) of plays.create, given the plays
\* table after the insert.
PlaysCreatePatch(match, args, plays1) ==
    LET roundPlays == SelectSeq(plays1, LAMBDA p :
                         p.match_id = args.match_id /\ p.round = args.round)
        m1 == [match EXCEPT !.current_turn = cvxGetNextPlayer(match, args.user_id)]
    IN  IF Len(roundPlays) = 4
        THEN LET roundWinner == cvxDetermineRoundWinner(roundPlays, match)
                 m2 == IF args.round = "round1"
                       THEN [m1 EXCEPT !.round1_winner = roundWinner]
                       ELSE IF args.round = "round2"
                       THEN [m1 EXCEPT !.round2_winner = roundWinner]
                       ELSE [m1 EXCEPT !.round3_winner = roundWinner]
                 m3 == IF args.round = "round1"
                       THEN [m2 EXCEPT !.current_round = "round2"]
                       ELSE IF args.round = "round2"
                       THEN [m2 EXCEPT !.current_round = "round3"]
                       ELSE m2
                 gameWinner == PlaysCreateGameWinner(match, roundWinner)
             IN  IF gameWinner # Undefined
                 THEN [m3 EXCEPT !.game_winner = gameWinner, !.is_complete = TRUE]
                 ELSE m3
        ELSE m1

\* plays.create, when it does not throw: the database after the mutation.
PlaysCreate(args) ==
    LET match  == MatchesGet(args.match_id)
        plays1 == Append(db.plays, args)
    IN  [matches |-> [db.matches EXCEPT ![args.match_id] =
                         PlaysCreatePatch(match, args, plays1)],
         plays |-> plays1]

------------------------------------------------------------------------------
\* Convex service: routes (src/unnamed/part_002). A handler gives up control at
\* every await of a query or mutation; pc[c] names the await client c's handler
\* has reached ("idle": no request of c is being handled) and loc[c] holds the
\* handler's constants. The first step of a handler is taken by a client whose
\* request has come in; which clients those are is the specification's choice.

CvxState(match) ==
    [currentTurn  |-> match.current_turn,
     currentRound |-> match.current_round,
     roundWinners |-> [round1 |-> match.round1_winner,
                       round2 |-> match.round2_winner,
                       round3 |-> match.round3_winner],
     winner       |-> match.game_winner,
     gameComplete |-> match.is_complete]

CvxRounds(plays) == [r \in RoundKey |-> SelectSeq(plays, LAMBDA p : p.round = r)]

\* The arguments of matches.create giving the first turn to team2.player1.
CvxNewMatchTeam2First(body) ==
    MatchesCreate([team1_player1 |-> body.team1.player1,
                   team1_player2 |-> body.team1.player2,
                   team2_player1 |-> body.team2.player1,
                   team2_player2 |-> body.team2.player2,
                   current_turn  |-> body.team2.player1,
                   current_round |-> "round1",
                   is_complete   |-> FALSE])

\* POST /v1/match/create: matches.create, then matches.get for the response.
CvxNewMatch(body) ==
    MatchesCreate([team1_player1 |-> body.team1.player1,
                   team1_player2 |-> body.team1.player2,
                   team2_player1 |-> body.team2.player1,
                   team2_player2 |-> body.team2.player2,
                   current_turn  |-> body.team1.player1,
                   current_round |-> "round1",
                   is_complete   |-> FALSE])

CvxCreateMatch(c, matchId, body) ==
    /\ service = "convex"
    /\ matchId \notin DOMAIN db.matches
    /\ db' = [db EXCEPT !.matches = @ @@ (matchId :> CvxNewMatch(body))]
    /\ pc' = [pc EXCEPT ![c] = "create_get"]
    /\ loc' = [loc EXCEPT ![c] = [matchId |-> matchId]]
    /\ UNCHANGED <<service, matches, response>>

CvxCreateMatchReturn(c) ==
    /\ pc[c] = "create_get"
    /\ response' = Respond("created", loc[c].matchId, MatchesGet(loc[c].matchId))
    /\ pc' = [pc EXCEPT ![c] = "idle"]
    /\ loc' = [loc EXCEPT ![c] = Null]
    /\ UNCHANGED <<service, matches, db>>

\* GET /v1/match/:matchId: matches.get ...
CvxGetMatch(c, matchId) ==
    /\ service = "convex"
    /\ IF matchId \notin DOMAIN db.matches
       THEN /\ response' = Respond("not_found", matchId, Null)
            /\ pc' = [pc EXCEPT ![c] = "idle"]
            /\ loc' = [loc EXCEPT ![c] = Null]
       ELSE /\ pc' = [pc EXCEPT ![c] = "get_plays"]
            /\ loc' = [loc EXCEPT ![c] =
                          [matchId |-> matchId, match |-> MatchesGet(matchId)]]
            /\ UNCHANGED response
    /\ UNCHANGED <<service, matches, db>>

\* ... then plays.getByMatch and the response.
CvxGetMatchReturn(c) ==
    /\ pc[c] = "get_plays"
    /\ response' = Respond("match", loc[c].matchId,
                     [summary |-> [currentRound |-> loc[c].match.current_round,
                                   currentTurn  |-> loc[c].match.current_turn,
                                   roundWinners |-> CvxState(loc[c].match).roundWinners,
                                   gameWinner   |-> loc[c].match.game_winner,
                                   isComplete   |-> loc[c].match.is_complete],
                      rounds |-> CvxRounds(PlaysGetByMatch(loc[c].matchId))])
    /\ pc' = [pc EXCEPT ![c] = "idle"]
    /\ loc' = [loc EXCEPT ![c] = Null]
    /\ UNCHANGED <<service, matches, db>>

\* GET /v1/matches/active: the one query matches.getActive and the response.
CvxListActive(c) ==
    /\ service = "convex"
    /\ response' = Respond("active", Null, MatchesGetActive)
    /\ UNCHANGED <<service, matches, db, pc, loc>>

\* The submit handler checking the turn before the card.
CvxSubmitPlayTurnFirst(c, matchId, userId, cardvalue, suit) ==
    LET cardValue == ParseInt(cardvalue)
        match == MatchesGet(matchId)
    IN
    /\ service = "convex"
    /\ IF matchId \notin DOMAIN db.matches
       THEN /\ response' = Respond("not_found", matchId, Null)
            /\ pc' = [pc EXCEPT ![c] = "idle"]
            /\ loc' = [loc EXCEPT ![c] = Null]
       ELSE IF match.current_turn # userId
       THEN /\ response' = Respond("not_your_turn", matchId, Null)
            /\ pc' = [pc EXCEPT ![c] = "idle"]
            /\ loc' = [loc EXCEPT ![c] = Null]
       ELSE IF ~CardSchemaOk(cardValue, suit)
       THEN /\ response' = Respond("validation", matchId, Null)
            /\ pc' = [pc EXCEPT ![c] = "idle"]
            /\ loc' = [loc EXCEPT ![c] = Null]
       ELSE /\ pc' = [pc EXCEPT ![c] = "mutation"]
            /\ loc' = [loc EXCEPT ![c] =
                          [match_id   |-> matchId,
                           user_id    |-> userId,
                           round      |-> match.current_round,
                           card_value |-> cardValue.num,
                           card_suit  |-> suit]]
            /\ UNCHANGED response
    /\ UNCHANGED <<service, matches, db>>

\* The submit handler leaving the check of the turn to the mutation.
CvxSubmitPlayNoTurnCheck(c, matchId, userId, cardvalue, suit) ==
    LET cardValue == ParseInt(cardvalue)
        match == MatchesGet(matchId)
    IN
    /\ service = "convex"
    /\ IF matchId \notin DOMAIN db.matches
       THEN /\ response' = Respond("not_found", matchId, Null)
            /\ pc' = [pc EXCEPT ![c] = "idle"]
            /\ loc' = [loc EXCEPT ![c] = Null]
       ELSE IF ~CardSchemaOk(cardValue, suit)
       THEN /\ response' = Respond("validation", matchId, Null)
            /\ pc' = [pc EXCEPT ![c] = "idle"]
            /\ loc' = [loc EXCEPT ![c] = Null]
       ELSE /\ pc' = [pc EXCEPT ![c] = "mutation"]
            /\ loc' = [loc EXCEPT ![c] =
                          [match_id   |-> matchId,
                           user_id    |-> userId,
                           round      |-> match.current_round,
                           card_value |-> cardValue.num,
                           card_suit  |-> suit]]
            /\ UNCHANGED response
    /\ UNCHANGED <<service, matches, db>>

\* GET /v1/:matchId/:userId/:cardvalue/:suit: matches.get and the checks made
\* on its result ...
CvxSubmitPlay(c, matchId, userId, cardvalue, suit) ==
    LET cardValue == ParseInt(cardvalue)
        match == MatchesGet(matchId)
    IN
    /\ service = "convex"
    /\ IF matchId \notin DOMAIN db.matches
       THEN /\ response' = Respond("not_found", matchId, Null)
            /\ pc' = [pc EXCEPT ![c] = "idle"]
            /\ loc' = [loc EXCEPT ![c] = Null]
       ELSE IF ~CardSchemaOk(cardValue, suit)
       THEN /\ response' = Respond("validation", matchId, Null)
            /\ pc' = [pc EXCEPT ![c] = "idle"]
            /\ loc' = [loc EXCEPT ![c] = Null]
       ELSE IF match.current_turn # userId
       THEN /\ response' = Respond("not_your_turn", matchId, Null)
            /\ pc' = [pc EXCEPT ![c] = "idle"]
            /\ loc' = [loc EXCEPT ![c] = Null]
       ELSE /\ pc' = [pc EXCEPT ![c] = "mutation"]
            /\ loc' = [loc EXCEPT ![c] =
                          [match_id   |-> matchId,
                           user_id    |-> userId,
                           round      |-> match.current_round,
                           card_value |-> cardValue.num,
                           card_suit  |-> suit]]
            /\ UNCHANGED response
    /\ UNCHANGED <<service, matches, db>>

\* ... then the plays.create mutation (a throw lands in the catch block) ...
CvxSubmitPlayMutation(c) ==
    /\ pc[c] = "mutation"
    /\ IF PlaysCreateThrows(loc[c])
       THEN /\ response' = Respond("invalid_request", loc[c].match_id, Null)
            /\ pc' = [pc EXCEPT ![c] = "idle"]
            /\ loc' = [loc EXCEPT ![c] = Null]
            /\ UNCHANGED db
       ELSE /\ db' = PlaysCreate(loc[c])
            /\ pc' = [pc EXCEPT ![c] = "updated_match"]
            /\ loc' = [loc EXCEPT ![c] = [matchId |-> loc[c].match_id]]
            /\ UNCHANGED response
    /\ UNCHANGED <<service, matches>>

\* ... then matches.get for updatedMatch ...
CvxSubmitPlayReread(c) ==
    /\ pc[c] = "updated_match"
    /\ pc' = [pc EXCEPT ![c] = "updated_plays"]
    /\ loc' = [loc EXCEPT ![c] =
                  [matchId |-> loc[c].matchId,
                   updatedMatch |-> MatchesGet(loc[c].matchId)]]
    /\ UNCHANGED <<service, matches, db, response>>

\* ... then plays.getByMatch and the response.
CvxSubmitPlayReturn(c) ==
    /\ pc[c] = "updated_plays"
    /\ response' = Respond("played", loc[c].matchId,
                     [state  |-> CvxState(loc[c].updatedMatch),
                      rounds |-> CvxRounds(PlaysGetByMatch(loc[c].matchId))])
    /\ pc' = [pc EXCEPT ![c] = "idle"]
    /\ loc' = [loc EXCEPT ![c] = Null]
    /\ UNCHANGED <<service, matches, db>>

------------------------------------------------------------------------------
\* Specifications

NoBatch == [c \in {} |-> Null]

\* After construction: an empty table, no request in flight, nothing sent.
Init ==
    /\ service \in Services
    /\ matches = EmptyTable
    /\ db = [matches |-> EmptyTable, plays |-> <<>>]
    /\ pc = [c \in Clients |-> "idle"]
    /\ loc = [c \in Clients |-> Null]
    /\ response = Respond("none", Null, Null)
    /\ batch = NoBatch

\* Plays recorded so far for matchId by the running service.
TotalPlays(matchId) ==
    IF service = "memory"
    THEN IF matchId \in DOMAIN matches
         THEN Len(matches[matchId].rounds.round1) + Len(matches[matchId].rounds.round2)
              + Len(matches[matchId].rounds.round3)
         ELSE 0
    ELSE Len(PlaysGetByMatch(matchId))

\* Requests arriving at the in-memory service; E holds the behaviours of the
\* change notifier (does emitMatchUpdate throw?) that may occur, V and S the
\* :cardvalue and :suit parameters the submissions carry.
CreateMatchMem(R, E) ==
    /\ \E matchId \in MatchIds, body \in R, emitThrows \in E :
           MemCreateMatch(matchId, body, emitThrows)
    /\ UNCHANGED <<pc, loc, batch>>
GetMatchMem ==
    /\ \E matchId \in MatchIds : MemGetMatch(matchId)
    /\ UNCHANGED <<pc, loc, batch>>
ListActiveMem ==
    /\ MemListActive
    /\ UNCHANGED <<pc, loc, batch>>
SubmitPlayMem(cap, E, V, S) ==
    /\ \E matchId \in MatchIds, userId \in UserIds,
          cardvalue \in V, suit \in S, emitThrows \in E :
           /\ TotalPlays(matchId) < cap
           /\ MemSubmitPlay(matchId, userId, cardvalue, suit, emitThrows)
    /\ UNCHANGED <<pc, loc, batch>>

\* Requests arriving at the Convex service from the idle clients of C, and the
\* later steps of their handlers.
CreateMatchCvx(C, R) ==
    /\ \E c \in C, matchId \in MatchIds, body \in R :
           pc[c] = "idle" /\ CvxCreateMatch(c, matchId, body)
    /\ UNCHANGED batch
CreateMatchCvxReturn(C) ==
    /\ \E c \in C : CvxCreateMatchReturn(c)
    /\ UNCHANGED batch
GetMatchCvx(C) ==
    /\ \E c \in C, matchId \in MatchIds : pc[c] = "idle" /\ CvxGetMatch(c, matchId)
    /\ UNCHANGED batch
GetMatchCvxReturn(C) ==
    /\ \E c \in C : CvxGetMatchReturn(c)
    /\ UNCHANGED batch
ListActiveCvx(C) ==
    /\ \E c \in C : pc[c] = "idle" /\ CvxListActive(c)
    /\ UNCHANGED batch
SubmitPlayCvx(C, cap, V, S) ==
    /\ \E c \in C, matchId \in MatchIds, userId \in UserIds,
          cardvalue \in V, suit \in S :
           /\ pc[c] = "idle"
           /\ TotalPlays(matchId) < cap
           /\ CvxSubmitPlay(c, matchId, userId, cardvalue, suit)
    /\ UNCHANGED batch
SubmitPlayCvxMutation(C, cap) ==
    /\ \E c \in C :
           /\ pc[c] = "mutation"
           /\ TotalPlays(loc[c].match_id) < cap
           /\ CvxSubmitPlayMutation(c)
    /\ UNCHANGED batch
SubmitPlayCvxReread(C) ==
    /\ \E c \in C : CvxSubmitPlayReread(c)
    /\ UNCHANGED batch
SubmitPlayCvxReturn(C) ==
    /\ \E c \in C : CvxSubmitPlayReturn(c)
    /\ UNCHANGED batch

\* Spec: the requests of one client, one after another, on a match of four
\* distinct players, up to MaxPlays plays, every submission carrying a valid
\* card (from any of the four players).
Next ==
    \/ CreateMatchMem({DistinctRoster}, NotifierAny)
    \/ ListActiveMem
    \/ SubmitPlayMem(MaxPlays, NotifierAny, ValidCardValueParams, ValidSuitParams)
    \/ CreateMatchCvx(OneClient, {DistinctRoster})
    \/ CreateMatchCvxReturn(OneClient)
    \/ ListActiveCvx(OneClient)
    \/ SubmitPlayCvx(OneClient, MaxPlays, ValidCardValueParams, ValidSuitParams)
    \/ SubmitPlayCvxMutation(OneClient, MaxPlays)
    \/ SubmitPlayCvxReread(OneClient)
    \/ SubmitPlayCvxReturn(OneClient)

Spec == Init /\ [][Next]_vars

\* SpecFair: Spec with the player named by currentTurn submitting a valid play
\* again and again, and every handler that has started running to its response
\* (the runtime resumes each awaited query and mutation).
TurnHolderSubmitsMem ==
    /\ \E matchId \in MatchIds, cardvalue \in ValidCardValueParams,
          suit \in ValidSuitParams, emitThrows \in NotifierAny :
           /\ matchId \in DOMAIN matches
           /\ TotalPlays(matchId) < MaxPlays
           /\ MemSubmitPlay(matchId, matches[matchId].state.currentTurn,
                            cardvalue, suit, emitThrows)
    /\ UNCHANGED <<pc, loc, batch>>
TurnHolderSubmitsCvx ==
    /\ \E c \in OneClient, matchId \in MatchIds,
          cardvalue \in ValidCardValueParams, suit \in ValidSuitParams :
           /\ pc[c] = "idle"
           /\ matchId \in DOMAIN db.matches
           /\ TotalPlays(matchId) < MaxPlays
           /\ CvxSubmitPlay(c, matchId, db.matches[matchId].current_turn,
                            cardvalue, suit)
    /\ UNCHANGED batch

\* ENABLED <<TurnHolderSubmitsMem>>_vars, spelled out: some match exists and
\* has room for a play (the turn holder's valid card passes every check of the
\* handler, and the play it records changes `matches`).
TurnHolderCanSubmitMem ==
    /\ service = "memory"
    /\ \E matchId \in MatchIds :
           matchId \in DOMAIN matches /\ TotalPlays(matchId) < MaxPlays

\* Weak fairness of the turn holder's submission (for the in-memory service
\* written as WF_vars(TurnHolderSubmitsMem) unfolds, with the predicate above
\* for ENABLED) and of every step of a handler that has started.
Fairness ==
    /\ \/ []<>(~TurnHolderCanSubmitMem)
       \/ []<><<TurnHolderSubmitsMem>>_vars
    /\ WF_vars(CreateMatchCvxReturn(OneClient))
    /\ WF_vars(TurnHolderSubmitsCvx)
    /\ WF_vars(SubmitPlayCvxMutation(OneClient, MaxPlays))
    /\ WF_vars(SubmitPlayCvxReread(OneClient))
    /\ WF_vars(SubmitPlayCvxReturn(OneClient))

SpecFair == Init /\ [][Next]_vars /\ Fairness

\* SpecOverlap: the requests of two clients, overlapping, on a match of any
\* roster, up to MaxOverlapPlays plays.
NextOverlap ==
    \/ CreateMatchMem(Rosters, NotifierAny)
    \/ GetMatchMem
    \/ SubmitPlayMem(MaxOverlapPlays, NotifierAny, CardValueParams, SuitParams)
    \/ CreateMatchCvx(Clients, Rosters)
    \/ CreateMatchCvxReturn(Clients)
    \/ GetMatchCvx(Clients)
    \/ GetMatchCvxReturn(Clients)
    \/ SubmitPlayCvx(Clients, MaxOverlapPlays, CardValueParams, SuitParams)
    \/ SubmitPlayCvxMutation(Clients, MaxOverlapPlays)
    \/ SubmitPlayCvxReread(Clients)
    \/ SubmitPlayCvxReturn(Clients)

SpecOverlap == Init /\ [][NextOverlap]_vars

\* SpecBatch: a batch of calls of submitPlay, one per client of BatchClients,
\* all received before any of them is handled, on a freshly created match of
\* four distinct players; each call carries a valid card and the notifier
\* works. The handlers then
\* run in any interleaving of their steps, and batch[c].outcome keeps the kind
\* of the response that call c got.
BatchCardValues == { <<"3">>, <<"1", "2">> }

BatchCalls ==
    [matchId : MatchIds, userId : UserIds, cardvalue : BatchCardValues,
     suit : {"hearts"}, outcome : {"pending"}]

InitBatch ==
    /\ service \in Services
    /\ matches = [m \in {id \in MatchIds : service = "memory"} |->
                     MemNewMatch(DistinctRoster)]
    /\ db = [matches |-> [m \in {id \in MatchIds : service = "convex"} |->
                             CvxNewMatch(DistinctRoster)],
             plays |-> <<>>]
    /\ pc = [c \in BatchClients |-> "arrived"]
    /\ loc = [c \in BatchClients |-> Null]
    /\ response = Respond("none", Null, Null)
    /\ batch \in [BatchClients -> BatchCalls]

\* The call of c got its response in this step.
BatchRecord(c) ==
    batch' = IF pc'[c] = "idle"
             THEN [batch EXCEPT ![c].outcome = response'.kind]
             ELSE batch

BatchSubmitPlayMem ==
    \E c \in BatchClients :
        /\ pc[c] = "arrived"
        /\ \E emitThrows \in NotifierWorks :
               MemSubmitPlay(batch[c].matchId, batch[c].userId,
                             batch[c].cardvalue, batch[c].suit, emitThrows)
        /\ pc' = [pc EXCEPT ![c] = "idle"]
        /\ UNCHANGED loc
        /\ BatchRecord(c)
BatchSubmitPlayCvx ==
    \E c \in BatchClients :
        /\ pc[c] = "arrived"
        /\ CvxSubmitPlay(c, batch[c].matchId, batch[c].userId,
                         batch[c].cardvalue, batch[c].suit)
        /\ BatchRecord(c)
BatchSubmitPlayCvxMutation ==
    \E c \in BatchClients : CvxSubmitPlayMutation(c) /\ BatchRecord(c)
BatchSubmitPlayCvxReread ==
    \E c \in BatchClients : CvxSubmitPlayReread(c) /\ BatchRecord(c)
BatchSubmitPlayCvxReturn ==
    \E c \in BatchClients : CvxSubmitPlayReturn(c) /\ BatchRecord(c)

NextBatch ==
    \/ BatchSubmitPlayMem
    \/ BatchSubmitPlayCvx
    \/ BatchSubmitPlayCvxMutation
    \/ BatchSubmitPlayCvxReread
    \/ BatchSubmitPlayCvxReturn

SpecBatch == InitBatch /\ [][NextBatch]_vars

\* SpecChecks: two calls of submitPlay with any parameters (a match id that
\* exists or not, the turn holder or another player, card values in and out
\* of range or not numeric, a suit or no suit) on a freshly created match of
\* four distinct players. The third client makes no call. Both match ids have
\* the form of an id of the matches table ("m2" names no document); what the
\* argument validator v.id("matches") of the Convex functions does with any
\* other string is not modelled.
CheckMatchIds == MatchIds \cup {"m2"}
CheckUserIds == {"A", "C"}
CheckCardValueParams ==
    CardValueParams \cup { <<"0">>, <<"-", "1">>, <<"1", "3">>, <<"3", "x">> }
CheckSuitParams == {"spades", "stars"}

CheckCalls ==
    [matchId : CheckMatchIds, userId : CheckUserIds,
     cardvalue : CheckCardValueParams, suit : CheckSuitParams,
     outcome : {"pending"}]

NoCall ==
    [matchId |-> "m2", userId |-> "A", cardvalue |-> <<"x">>, suit |-> "stars",
     outcome |-> "none"]

InitChecks ==
    /\ service \in Services
    /\ matches = [m \in {id \in MatchIds : service = "memory"} |->
                     MemNewMatch(DistinctRoster)]
    /\ db = [matches |-> [m \in {id \in MatchIds : service = "convex"} |->
                             CvxNewMatch(DistinctRoster)],
             plays |-> <<>>]
    /\ pc = [c \in BatchClients |-> IF c \in Clients THEN "arrived" ELSE "idle"]
    /\ loc = [c \in BatchClients |-> Null]
    /\ response = Respond("none", Null, Null)
    /\ \E calls \in [Clients -> CheckCalls] :
           batch = [c \in BatchClients |->
                       IF c \in Clients THEN calls[c] ELSE NoCall]

SpecChecks == InitChecks /\ [][NextBatch]_vars

\* SpecResolver: the fourth play of round1, on a match of four distinct
\* players whose first three players have played cards of any of the values
\* and suits below.
ResolverValues == {3, 7, 12}
ResolverSuits == {"hearts", "spades"}
ResolverCards == [value : ResolverValues, suit : ResolverSuits]

\* The first three plays of round1, by the ring team1.p1, team2.p1, team1.p2.
ResolverOpening(cards) ==
    [i \in 1..3 |->
        [userId |-> <<DistinctRoster.team1.player1, DistinctRoster.team2.player1,
                      DistinctRoster.team1.player2>>[i],
         card |-> cards[i]]]

InitResolver ==
    \E cards \in [1..3 -> ResolverCards] :
        /\ service \in Services
        /\ matches = [m \in {id \in MatchIds : service = "memory"} |->
                         [state  |-> [MemNewMatch(DistinctRoster).state EXCEPT
                                        !.currentTurn = DistinctRoster.team2.player2],
                          rounds |-> [MemNewMatch(DistinctRoster).rounds EXCEPT
                                        !.round1 = ResolverOpening(cards)]]]
        /\ db = [matches |-> [m \in {id \in MatchIds : service = "convex"} |->
                                 [CvxNewMatch(DistinctRoster) EXCEPT
                                    !.current_turn = DistinctRoster.team2.player2]],
                 plays |-> IF service = "convex"
                           THEN [i \in 1..3 |->
                                   [match_id   |-> "m1",
                                    user_id    |-> ResolverOpening(cards)[i].userId,
                                    round      |-> "round1",
                                    card_value |-> cards[i].value,
                                    card_suit  |-> cards[i].suit]]
                           ELSE <<>>]
        /\ pc = [c \in Clients |-> "idle"]
        /\ loc = [c \in Clients |-> Null]
        /\ response = Respond("none", Null, Null)
        /\ batch = NoBatch

NextResolver ==
    \/ SubmitPlayMem(4, NotifierAny, CardValueParams, SuitParams)
    \/ SubmitPlayCvx(OneClient, 4, CardValueParams, SuitParams)
    \/ SubmitPlayCvxMutation(OneClient, 4)
    \/ SubmitPlayCvxReread(OneClient)
    \/ SubmitPlayCvxReturn(OneClient)

SpecResolver == InitResolver /\ [][NextResolver]_vars

------------------------------------------------------------------------------
\* The match as either service holds it

Exists(m) ==
    IF service = "memory" THEN m \in DOMAIN matches ELSE m \in DOMAIN db.matches

Roster(m) ==
    IF service = "memory"
    THEN [team1 |-> matches[m].state.team1, team2 |-> matches[m].state.team2]
    ELSE [team1 |-> [player1 |-> db.matches[m].team1_player1,
                     player2 |-> db.matches[m].team1_player2],
          team2 |-> [player1 |-> db.matches[m].team2_player1,
                     player2 |-> db.matches[m].team2_player2]]

Seats(m) ==
    {Roster(m).team1.player1, Roster(m).team1.player2,
     Roster(m).team2.player1, Roster(m).team2.player2}

FourDistinctPlayers(m) == Cardinality(Seats(m)) = 4

Summary(m) ==
    IF service = "memory"
    THEN MemSummary(matches[m])
    ELSE [currentRound |-> db.matches[m].current_round,
          currentTurn  |-> db.matches[m].current_turn,
          roundWinners |-> CvxState(db.matches[m]).roundWinners,
          gameWinner   |-> db.matches[m].game_winner,
          isComplete   |-> db.matches[m].is_complete]

\* The submitters of the plays recorded under round r, in recording order.
RoundUsers(m, r) ==
    IF service = "memory"
    THEN [i \in 1..Len(matches[m].rounds[r]) |-> matches[m].rounds[r][i].userId]
    ELSE LET ps == CvxRounds(PlaysGetByMatch(m))[r]
         IN  [i \in 1..Len(ps) |-> ps[i].user_id]

\* The cards of the plays recorded under round r, in recording order.
RoundCards(m, r) ==
    IF service = "memory"
    THEN [i \in 1..Len(matches[m].rounds[r]) |-> matches[m].rounds[r][i].card]
    ELSE LET ps == CvxRounds(PlaysGetByMatch(m))[r]
         IN  [i \in 1..Len(ps) |-> [value |-> ps[i].card_value, suit |-> ps[i].card_suit]]

\* The submitters of all accepted plays, in the order of acceptance (the
\* in-memory service fills its rounds one after the other).
AcceptedUsers(m) ==
    IF service = "memory"
    THEN RoundUsers(m, "round1") \o RoundUsers(m, "round2") \o RoundUsers(m, "round3")
    ELSE LET ps == PlaysGetByMatch(m) IN [i \in 1..Len(ps) |-> ps[i].user_id]

RoundWins(m, team) ==
    Cardinality({r \in RoundKey : Summary(m).roundWinners[r] = team})

\* The fixed seating ring team1.p1 -> team2.p1 -> team1.p2 -> team2.p2 -> team1.p1
RingNext(roster, player) ==
    IF player = roster.team1.player1 THEN roster.team2.player1
    ELSE IF player = roster.team2.player1 THEN roster.team1.player2
    ELSE IF player = roster.team1.player2 THEN roster.team2.player2
    ELSE roster.team1.player1

PreconditionErrors == {"not_found", "validation", "not_your_turn"}
RejectKinds == PreconditionErrors \cup {"invalid_request"}

------------------------------------------------------------------------------
\* Claims

\* C1: once isComplete is true no step records a further play for the match.
\* (Stated as the claim has it; both services accept the turn holder's play
\* on a completed match.)
C1_NoPlayOnceComplete ==
    [][\A m \in MatchIds :
         (Exists(m) /\ Summary(m).isComplete) => TotalPlays(m)' = TotalPlays(m)]_vars

\* C2: in every state where a team holds 2 round wins, isComplete is true and
\* gameWinner is that team (the series is decided in the transition that
\* closes the round giving the second win).
C2_SeriesDecidedAtSecondWin ==
    \A m \in MatchIds : Exists(m) =>
        \A t \in TeamKey : RoundWins(m, t) >= 2 =>
            Summary(m).isComplete /\ Summary(m).gameWinner = t

\* The batch of SpecBatch: every call answered; the player holding the turn
\* when the batch came in; the calls answered with the updated match.
BatchDone == \A c \in DOMAIN batch : pc[c] = "idle"
BatchHolder == DistinctRoster.team1.player1
BatchAccepted == {c \in DOMAIN batch : batch[c].outcome = "played"}
OneCallByHolder ==
    Cardinality({c \in DOMAIN batch : batch[c].userId = BatchHolder}) = 1
NoCallBySuccessor ==
    \A c \in DOMAIN batch :
        batch[c].userId # RingNext(DistinctRoster, BatchHolder)
OneAcceptedOthersTurnError ==
    /\ Cardinality(BatchAccepted) = 1
    /\ \A m \in MatchIds : TotalPlays(m) = 1
    /\ \A c \in DOMAIN batch \ BatchAccepted : batch[c].outcome = "not_your_turn"

\* C3 as stated: when every call of an overlapping batch has been answered and
\* exactly one call was made by the player holding the turn when the batch
\* came in, exactly one call was accepted (one play recorded) and every other
\* call was answered "not your turn".
C3_SerializabilityAsStated ==
    (BatchDone /\ OneCallByHolder) => OneAcceptedOthersTurnError

\* C3, amended: the same, for the batches in which moreover no call is made
\* by the ring successor of the turn holder (whose turn it becomes as soon as
\* the holder's play is accepted).
C3_Serializability ==
    (BatchDone /\ OneCallByHolder /\ NoCallBySuccessor) => OneAcceptedOthersTurnError

\* C3 witness: the Convex service has answered such a batch, its other calls
\* coming from players who neither hold the turn nor are next.
C3_Witness ==
    /\ service = "convex"
    /\ batch # NoBatch
    /\ BatchDone /\ OneCallByHolder /\ NoCallBySuccessor
    /\ Cardinality(BatchAccepted) = 1

\* C4: the view a getMatch returns pairs its play listing with the summary of
\* the state that holds exactly those plays.
C4_AtomicView ==
    [][\A m \in MatchIds :
         /\ (service = "memory" /\ response'.kind = "match" /\ response'.matchId = m) =>
               /\ response'.view.summary = Summary(m)'
               /\ response'.view.rounds = matches'[m].rounds
         /\ \A c \in Clients :
               (pc[c] = "get_plays" /\ pc'[c] = "idle" /\ response'.matchId = m) =>
                   response'.view.summary = Summary(m)']_vars

\* A step in which a submission is rejected for a failed precondition: the
\* in-memory handler answers in the step it runs in, with one of the three
\* precondition errors; a Convex handler rejects on its first step (pc stays
\* as it is) or when its mutation throws.
RejectionSent ==
    \/ service = "memory" /\ response'.kind \in PreconditionErrors
    \/ service = "convex" /\ response'.kind \in RejectKinds /\ pc' = pc
    \/ /\ service = "convex" /\ response'.kind \in RejectKinds
       /\ \E c \in Clients : pc[c] = "mutation" /\ pc'[c] = "idle"

\* C5: a step that sends a rejection (not found, validation error, not your
\* turn, or the mutation's throw) leaves the match table and the plays exactly
\* as they were.
C5_RejectionPurity ==
    [][RejectionSent => UNCHANGED <<matches, db>>]_vars

\* C5 witness: a submission was turned down by the mutation itself, after an
\* overlapping submission took the turn.
C5_Witness ==
    /\ response.kind = "invalid_request"
    /\ TotalPlays(response.matchId) >= 1

\* C6: with four distinct players, the submitter of each accepted play is the
\* ring successor of the submitter of the accepted play before it.
C6_TurnMonotonicity ==
    \A m \in MatchIds : (Exists(m) /\ FourDistinctPlayers(m)) =>
        \A n \in 1..(Len(AcceptedUsers(m)) - 1) :
            AcceptedUsers(m)[n + 1] = RingNext(Roster(m), AcceptedUsers(m)[n])

\* C6 witness: five accepted plays, so that the ring has come round once.
C6_Witness ==
    \E m \in MatchIds :
        Exists(m) /\ FourDistinctPlayers(m) /\ Len(AcceptedUsers(m)) >= 5

\* C7: a round's winner is set exactly when the round holds exactly 4 plays,
\* and a winner once set never changes.
C7_RoundClosureExactness ==
    /\ [](\A m \in MatchIds : Exists(m) =>
            \A r \in RoundKey :
                (Summary(m).roundWinners[r] # Undefined) <=> (Len(RoundUsers(m, r)) = 4))
    /\ [][\A m \in MatchIds : Exists(m) =>
            \A r \in RoundKey :
                Summary(m).roundWinners[r] # Undefined =>
                    Summary(m)'.roundWinners[r] = Summary(m).roundWinners[r]]_vars

\* C8: no round ever holds more than 4 plays.
C8_AtMostFourPlays ==
    \A m \in MatchIds : Exists(m) =>
        \A r \in RoundKey : Len(RoundUsers(m, r)) <= 4

\* C9: with four distinct players, no player has two plays in one round, and
\* a closed round holds one play of each of the four players.
C9_OnePlayPerPlayerPerRound ==
    \A m \in MatchIds : (Exists(m) /\ FourDistinctPlayers(m)) =>
        \A r \in RoundKey :
            /\ \A i, j \in 1..Len(RoundUsers(m, r)) :
                   RoundUsers(m, r)[i] = RoundUsers(m, r)[j] => i = j
            /\ Summary(m).roundWinners[r] # Undefined =>
                   /\ Len(RoundUsers(m, r)) = 4
                   /\ {RoundUsers(m, r)[i] : i \in 1..Len(RoundUsers(m, r))} = Seats(m)

\* C10: isComplete never goes back to false and gameWinner, once set, never
\* changes.
C10_SeriesMonotonicity ==
    [][\A m \in MatchIds : Exists(m) =>
         /\ Summary(m).isComplete => Summary(m)'.isComplete
         /\ Summary(m).gameWinner # Undefined =>
                Summary(m)'.gameWinner = Summary(m).gameWinner]_vars

\* C10 witness: the series was decided 2-0 and round3 was then played out and
\* won by the other team.
C10_Witness ==
    \E m \in MatchIds :
        /\ Exists(m)
        /\ Summary(m).isComplete
        /\ Summary(m).gameWinner = "team1"
        /\ Summary(m).roundWinners["round3"] = "team2"

\* C11: in every state gameWinner is set exactly when isComplete is true.
C11_WinnerIffComplete ==
    \A m \in MatchIds : Exists(m) =>
        ((Summary(m).gameWinner # Undefined) <=> Summary(m).isComplete)

\* C11 witness: the Convex service has completed a match, with its winner.
C11_Witness ==
    \E m \in MatchIds :
        /\ service = "convex" /\ Exists(m)
        /\ Summary(m).isComplete /\ Summary(m).gameWinner \in TeamKey

\* The card a call carries, as the handler parses it, passes CardSchema.
CallCardValid(call) ==
    LET parsed == ParseInt(call.cardvalue)
    IN  /\ ~parsed.isNaN
        /\ parsed.num \in 1..13
        /\ call.suit \in {"hearts", "diamonds", "clubs", "spades"}

Answered == {c \in DOMAIN batch : batch[c].outcome \notin {"pending", "none"}}

C13_RingAcrossRounds ==
    \A m \in MatchIds : (Exists(m) /\ FourDistinctPlayers(m)) =>
        /\ \A r \in RoundKey :
               Len(RoundUsers(m, r)) >= 1 =>
                   RoundUsers(m, r)[1] = Roster(m).team1.player1
        /\ Len(RoundUsers(m, Summary(m).currentRound)) = 0 =>
               Summary(m).currentTurn = Roster(m).team1.player1
        /\ Len(RoundUsers(m, "round1")) >= 4 => Summary(m).currentRound # "round1"
        /\ Len(RoundUsers(m, "round2")) >= 4 => Summary(m).currentRound = "round3"

\* The team of the earliest play of greatest value among the first four plays
\* of round r.
EarliestGreatest(m, r) ==
    LET greatest == CHOOSE v \in {RoundCards(m, r)[i].value : i \in 1..4} :
                        \A i \in 1..4 : RoundCards(m, r)[i].value <= v
        first == CHOOSE i \in 1..4 :
                     /\ RoundCards(m, r)[i].value = greatest
                     /\ \A j \in 1..(i - 1) : RoundCards(m, r)[j].value < greatest
    IN  IF RoundUsers(m, r)[first] \in
              {Roster(m).team1.player1, Roster(m).team1.player2}
        THEN "team1" ELSE "team2"

\* C14: the winner recorded for a round is the team of the submitter of the
\* play of greatest card value among its four plays, the earliest such play
\* when several share that value, whatever the suits.
C14_RoundResolver ==
    \A m \in MatchIds : (Exists(m) /\ FourDistinctPlayers(m)) =>
        \A r \in RoundKey :
            (Summary(m).roundWinners[r] # Undefined /\ Len(RoundUsers(m, r)) >= 4) =>
                Summary(m).roundWinners[r] = EarliestGreatest(m, r)

\* C14 witness: the Convex service closed round1 with the greatest value
\* shared by a team1 play and a later team2 play of another suit.
C14_Witness ==
    \E m \in MatchIds :
        /\ service = "convex" /\ Exists(m)
        /\ Summary(m).roundWinners["round1"] = "team1"
        /\ Len(RoundCards(m, "round1")) = 4
        /\ RoundCards(m, "round1")[1].value = 12
        /\ RoundCards(m, "round1")[4].value = 12
        /\ RoundCards(m, "round1")[1].suit # RoundCards(m, "round1")[4].suit

\* C15: in every state where round3 has been closed the match is complete and
\* gameWinner is the team holding at least 2 of the round wins; after a 1-1
\* split of round1 and round2 it is the winner of round3.
C15_Round3Decides ==
    \A m \in MatchIds : Exists(m) =>
        (Summary(m).roundWinners["round3"] # Undefined =>
            /\ Summary(m).isComplete
            /\ Summary(m).gameWinner \in TeamKey
            /\ RoundWins(m, Summary(m).gameWinner) >= 2
            /\ Summary(m).roundWinners["round1"] # Summary(m).roundWinners["round2"] =>
                   Summary(m).gameWinner = Summary(m).roundWinners["round3"])

\* C15 witness: the Convex service closed round3 after team2 had won round1
\* and team1 round2, team1 winning round3 and the series.
C15_Witness ==
    \E m \in MatchIds :
        /\ service = "convex" /\ Exists(m)
        /\ Summary(m).roundWinners["round1"] = "team2"
        /\ Summary(m).roundWinners["round2"] = "team1"
        /\ Summary(m).roundWinners["round3"] = "team1"
        /\ Summary(m).gameWinner = "team1"

\* C16: the step that creates a match leaves it with no play in any round,
\* currentTurn = team1.player1, currentRound = round1, no round winner, no
\* gameWinner, and not complete.
C16_CreateMatchInitialState ==
    [][\A m \in MatchIds :
         (~Exists(m) /\ Exists(m)') =>
             /\ \A r \in RoundKey : Len(RoundUsers(m, r))' = 0
             /\ TotalPlays(m)' = 0
             /\ Summary(m)' = [currentRound |-> "round1",
                               currentTurn  |-> Roster(m)'.team1.player1,
                               roundWinners |-> NoRoundWinners,
                               gameWinner   |-> Undefined,
                               isComplete   |-> FALSE]]_vars

\* C16 witness: the Convex service has answered the creation of a match.
C16_Witness ==
    \E m \in MatchIds :
        /\ service = "convex" /\ Exists(m)
        /\ response.kind = "created" /\ response.matchId = m
        /\ TotalPlays(m) = 0

\* C17: a listing of the active matches, in the step that sends it (a step
\* that moves no handler on and writes nothing), holds exactly the matches
\* that exist and are not complete, which are the matches that exist and
\* have no gameWinner.
C17_ActiveListing ==
    [][(response'.kind = "active" /\ pc' = pc /\ UNCHANGED <<matches, db>>) =>
          /\ DOMAIN response'.view =
                 {m \in MatchIds : Exists(m) /\ ~Summary(m).isComplete}
          /\ DOMAIN response'.view =
                 {m \in MatchIds : Exists(m) /\ Summary(m).gameWinner = Undefined}]_vars

\* C17 witness: the Convex service listed no match after the only match was
\* completed.
C17_Witness ==
    \E m \in MatchIds :
        /\ service = "convex" /\ Exists(m) /\ Summary(m).isComplete
        /\ response.kind = "active" /\ DOMAIN response.view = {}

\* The round after r in which plays are recorded once r has closed.
RoundAfter(r) ==
    IF r = "round1" THEN "round2" ELSE "round3"

\* C18: a step of the in-memory service in which the notifier fails after a
\* play has been applied (answered "Invalid request" on a known match) keeps
\* the whole transition: the play of the turn holder is recorded under the
\* current round, the turn has moved to the ring successor and, when the play
\* was the round's fourth, the round winner is set, the current round has
\* moved on and a team with 2 round wins is the gameWinner of a complete
\* match; otherwise round, round winners and series are as before.
C18_NotifierFailureKeepsPlay ==
    [][(service = "memory" /\ response'.kind = "invalid_request") =>
          \A m \in MatchIds, r \in RoundKey :
              (/\ Exists(m) /\ response'.matchId = m
               /\ r = Summary(m).currentRound) =>
                  /\ TotalPlays(m)' = TotalPlays(m) + 1
                  /\ Len(RoundUsers(m, r))' = Len(RoundUsers(m, r)) + 1
                  /\ RoundUsers(m, r)'[Len(RoundUsers(m, r))'] = Summary(m).currentTurn
                  /\ Summary(m)'.currentTurn =
                         RingNext(Roster(m), Summary(m).currentTurn)
                  /\ IF Len(RoundUsers(m, r))' = 4
                     THEN /\ Summary(m)'.roundWinners[r] \in TeamKey
                          /\ Summary(m)'.currentRound = RoundAfter(r)
                          /\ \A t \in TeamKey :
                                 RoundWins(m, t)' >= 2 =>
                                     /\ Summary(m)'.isComplete
                                     /\ Summary(m)'.gameWinner = t
                     ELSE /\ Summary(m)'.currentRound = r
                          /\ Summary(m)'.roundWinners = Summary(m).roundWinners
                          /\ Summary(m)'.gameWinner = Summary(m).gameWinner
                          /\ Summary(m)'.isComplete = Summary(m).isComplete]_vars

\* C18 witness: the notifier failed on the eighth play, which completed the
\* series.
C18_Witness ==
    \E m \in MatchIds :
        /\ service = "memory" /\ Exists(m)
        /\ response.kind = "invalid_request"
        /\ TotalPlays(m) = 8
        /\ Summary(m).isComplete

\* C19: every recorded play has a value in 1..13 and one of the four suits;
\* no call carrying any other card is accepted, on a known match it is
\* answered with the validation error, and the step answering so writes
\* nothing.
C19_CardValidation ==
    /\ [](/\ \A m \in MatchIds : Exists(m) =>
                \A r \in RoundKey : \A i \in 1..Len(RoundCards(m, r)) :
                    /\ RoundCards(m, r)[i].value \in 1..13
                    /\ RoundCards(m, r)[i].suit \in
                           {"hearts", "diamonds", "clubs", "spades"}
           /\ \A c \in Answered :
                ~CallCardValid(batch[c]) =>
                    /\ batch[c].outcome # "played"
                    /\ Exists(batch[c].matchId) => batch[c].outcome = "validation")
    /\ [][\A c \in DOMAIN batch :
            (batch[c].outcome # "validation" /\ batch'[c].outcome = "validation") =>
                UNCHANGED <<matches, db>>]_vars

\* C19 witness: the turn holder's call with value 14 was answered with the
\* validation error and the other client's call with value 13 was accepted.
C19_Witness ==
    \E c, d \in Answered :
        /\ Exists(batch[c].matchId)
        /\ batch[c].cardvalue = <<"1", "4">> /\ batch[c].suit = "spades"
        /\ batch[c].userId = "A" /\ batch[c].outcome = "validation"
        /\ batch[d].cardvalue = <<"1", "3">> /\ batch[d].outcome = "played"

\* C20: in every state currentTurn is one of the four seats of the match, and
\* so is the submitter of every accepted play (the identity the turn
\* sequencer was applied to).
C20_TurnIsASeat ==
    \A m \in MatchIds : Exists(m) =>
        /\ Summary(m).currentTurn \in Seats(m)
        /\ \A n \in 1..Len(AcceptedUsers(m)) : AcceptedUsers(m)[n] \in Seats(m)

\* C20 witness: a match with one player on two seats has accepted three
\* plays.
C20_Witness ==
    \E m \in MatchIds :
        Exists(m) /\ ~FourDistinctPlayers(m) /\ Len(AcceptedUsers(m)) >= 3

\* C21: a step that records a play records it under the round that is the
\* match's currentRound when the step is taken.
C21_RecordedUnderCurrentRound ==
    [][\A m \in MatchIds, r \in RoundKey :
         (Exists(m) /\ Len(RoundUsers(m, r))' = Len(RoundUsers(m, r)) + 1) =>
             r = Summary(m).currentRound]_vars

\* The submitters listed under round r in the match state of a response.
ViewUsers(view, r) ==
    [i \in 1..Len(view.rounds[r]) |->
        IF service = "memory" THEN view.rounds[r][i].userId
        ELSE view.rounds[r][i].user_id]

\* C22: the match state answered to a successful submitPlay is the state that
\* submission produced: the submitter's play is the last one listed and
\* currentTurn is the player after the submitter.
C22_ReturnedStateIsOwn ==
    [][\A c \in BatchClients :
         (batch[c].outcome = "pending" /\ batch'[c].outcome = "played") =>
             LET view  == response'.view
                 users == ViewUsers(view, "round1")
             IN  /\ view.state.currentTurn =
                        RingNext(DistinctRoster, batch[c].userId)
                 /\ view.state.currentRound = "round1"
                 /\ Len(users) > 0
                 /\ users[Len(users)] = batch[c].userId]_vars

\* The in-memory service fed, one call after the other, the submissions the
\* Convex-backed service accepted (plays: its plays table, in commit order):
\* the in-memory match reached and whether every one of them was accepted.
RECURSIVE MemReplay(_, _)
MemReplay(run, plays) ==
    IF plays = <<>> THEN run
    ELSE LET p == Head(plays)
             accepted == p.user_id = run.match.state.currentTurn
         IN  MemReplay([match    |-> IF accepted
                                     THEN MemApplyPlay(run.match, p.user_id,
                                              [value |-> p.card_value,
                                               suit  |-> p.card_suit])
                                     ELSE run.match,
                        accepted |-> run.accepted /\ accepted],
                       Tail(plays))

\* C23: after every call of a sequential run with four distinct players, the
\* in-memory service given the same calls has accepted the same submissions
\* and holds the same currentTurn, currentRound, roundWinners, gameWinner and
\* isComplete as the Convex-backed service.
C23_ServicesAgree ==
    \A m \in MatchIds :
        (service = "convex" /\ Exists(m) /\ FourDistinctPlayers(m)) =>
            LET run == MemReplay([match |-> MemNewMatch(Roster(m)),
                                  accepted |-> TRUE],
                                 PlaysGetByMatch(m))
            IN  /\ run.accepted
                /\ MemSummary(run.match) = Summary(m)

\* C24: currentRound changes only in the step that records the 4th play of
\* the current round, and then to the next round (round1 -> round2 -> round3);
\* that step always advances it; round3 is never left.
C24_RoundOnlyForward ==
    [][\A m \in MatchIds, r \in RoundKey :
         (Exists(m) /\ r = Summary(m).currentRound) =>
             /\ Summary(m)'.currentRound # r =>
                    /\ r # "round3"
                    /\ Summary(m)'.currentRound = RoundAfter(r)
                    /\ Len(RoundUsers(m, r)) = 3
                    /\ Len(RoundUsers(m, r))' = 4
             /\ (r # "round3" /\ Len(RoundUsers(m, r)) = 3
                    /\ Len(RoundUsers(m, r))' = 4) =>
                    Summary(m)'.currentRound = RoundAfter(r)]_vars

\* round3 has been reached through round1 and round2, has been closed, and
\* is still the current round.
C24_Witness ==
    \E m \in MatchIds :
        /\ Exists(m)
        /\ Summary(m).currentRound = "round3"
        /\ Len(RoundUsers(m, "round1")) = 4
        /\ Len(RoundUsers(m, "round2")) = 4
        /\ Len(RoundUsers(m, "round3")) >= 4

\* The series of match m was decided by round1 and round2.
SweptSeries(m) ==
    /\ Summary(m).roundWinners.round1 # Undefined
    /\ Summary(m).roundWinners.round1 = Summary(m).roundWinners.round2

\* Every match eventually reaches isComplete = true.
C25_EventuallyComplete ==
    \A m \in MatchIds :
        Exists(m) ~> (Exists(m) /\ Summary(m).isComplete)

\* isComplete is never true with fewer than 8 accepted plays.
C25_NotBeforeEighth ==
    [](\A m \in MatchIds :
          (Exists(m) /\ Summary(m).isComplete) => TotalPlays(m) >= 8)

\* isComplete becomes true in the step that records the 8th accepted play
\* when one team won round1 and round2, the 12th when they were split.
C25_AtEighthOrTwelfth ==
    [][\A m \in MatchIds :
         (Exists(m) /\ ~Summary(m).isComplete /\ Summary(m)'.isComplete) =>
             /\ TotalPlays(m)' = TotalPlays(m) + 1
             /\ TotalPlays(m)' = IF SweptSeries(m)' THEN 8 ELSE 12]_vars

\* C25: with the player named by currentTurn submitting valid plays again and
\* again, every match eventually reaches isComplete = true, at exactly the
\* 8th accepted play when one team won round1 and round2 and at exactly the
\* 12th when those rounds were split, and never with fewer than 8 plays.
C25_Termination ==
    /\ C25_EventuallyComplete
    /\ C25_NotBeforeEighth
    /\ C25_AtEighthOrTwelfth

\* C26: in every state gameWinner is team T exactly when T holds at least 2
\* entries of roundWinners, and the two teams never both hold 2.
C26_WinnerMatchesRounds ==
    \A m \in MatchIds : Exists(m) =>
        /\ \A t \in TeamKey :
               (Summary(m).gameWinner = t) <=> (RoundWins(m, t) >= 2)
        /\ ~(RoundWins(m, "team1") >= 2 /\ RoundWins(m, "team2") >= 2)

====
